---- MODULE Spec2Model ----
(***************************************************************************)
(* Model of the TikTokVideoGenerator component                             *)
(* (frontend/src/app/page.jsx): the React state of the component, the      *)
(* in-flight invocations of handleGenerate, the speech-synthesis engine,   *)
(* the <video> element and the reload timers of handleVideoError.          *)
(*                                                                         *)
(* Strings that the code inspects character by character (prompt,          *)
(* promptText, captions) are sequences of one-character strings; strings   *)
(* the code only stores or compares are TLA+ strings.  An optional JSON    *)
(* field that holds a list or an inspected string is a sequence of length  *)
(* 0 (absent) or 1 (present, holding the value).                           *)
(***************************************************************************)
EXTENDS Integers, Sequences, FiniteSets, TLC

VARIABLES
    prompt,             \* useState("")  line 26
    documentFile,       \* useState(null) line 27
    videoPath,          \* useState("") line 28: <<>> or <<outputPath, t>>
    loading,            \* useState(false) line 29
    error,              \* useState("") line 30
    notification,       \* useState("") line 31
    captions,           \* useState([]) line 32
    videoKey,           \* useState(Date.now()) line 36
    speechSynthesisRef, \* useRef(null) line 38, set by the mount effect
    mounted,            \* the component is mounted
    now,                \* the value Date.now() returns
    calls,              \* invocations of handleGenerate suspended at an await,
                        \* each with its request and, until the response of
                        \* the generation request is handled, the videoPath
                        \* that was rendered when the handler was invoked
    synthQueue,         \* utterance queue of window.speechSynthesis
    synthPaused,        \* paused flag of window.speechSynthesis
    synthPos,           \* how far the utterance at the head of the queue
                        \* has been spoken: 0 not begun, 1 partly spoken
    media,              \* state of the rendered <video> element
    timers,             \* due times of the pending setTimeout callbacks
    loadCount           \* videoRef.current.load() calls made

formVars == <<prompt, documentFile>>
synthVars == <<synthQueue, synthPaused, synthPos>>
playVars == <<media, timers, loadCount>>
uiVars == <<prompt, documentFile, videoPath, loading, error, notification,
            captions, videoKey>>
vars == <<prompt, documentFile, videoPath, loading, error, notification,
          captions, videoKey, speechSynthesisRef, mounted, now, calls,
          synthQueue, synthPaused, synthPos, media, timers, loadCount>>

----------------------------------------------------------------------------
(* Bounds of the model *)
MaxCalls == 2
MaxReloads == 2
MaxTime == 501

(* Program constants *)
ReloadDelay == 500
NULL == "null"
Undefined == "undefined"
ValidationMsg == "Please enter a prompt or upload a document!"
GenericMsg == "Failed to generate video. Please check backend logs."
ApiFailedMsg == "API request failed"
DocumentUrl == "http://localhost:5000/render-video-document"
PromptUrl == "http://localhost:5000/render-video"

----------------------------------------------------------------------------
(* Strings *)
Whitespace == {" ", "\n"}

RECURSIVE TrimStart(_)
TrimStart(s) ==
    IF s # <<>> /\ Head(s) \in Whitespace THEN TrimStart(Tail(s)) ELSE s

RECURSIVE TrimEnd(_)
TrimEnd(s) ==
    IF s # <<>> /\ s[Len(s)] \in Whitespace
    THEN TrimEnd(SubSeq(s, 1, Len(s) - 1))
    ELSE s

Trim(s) == TrimEnd(TrimStart(s))

(* s.split(sep) for a one-character separator *)
RECURSIVE SplitFrom(_, _, _)
SplitFrom(s, sep, cur) ==
    IF s = <<>> THEN <<cur>>
    ELSE IF Head(s) = sep
         THEN <<cur>> \o SplitFrom(Tail(s), sep, <<>>)
         ELSE SplitFrom(Tail(s), sep, Append(cur, Head(s)))

Split(s, sep) == SplitFrom(s, sep, <<>>)

(* lines.filter(line => line.trim() !== "") *)
RECURSIVE FilterNonBlank(_)
FilterNonBlank(lines) ==
    IF lines = <<>> THEN <<>>
    ELSE IF Trim(Head(lines)) # <<>>
         THEN <<Head(lines)>> \o FilterNonBlank(Tail(lines))
         ELSE FilterNonBlank(Tail(lines))

(* captions.join(". ") *)
RECURSIVE Join(_)
Join(lines) ==
    IF lines = <<>> THEN <<>>
    ELSE IF Len(lines) = 1 THEN Head(lines)
         ELSE Head(lines) \o <<".", " ">> \o Join(Tail(lines))

RemoveAt(s, i) == SubSeq(s, 1, i - 1) \o SubSeq(s, i + 1, Len(s))

----------------------------------------------------------------------------
(* Inputs *)
Prompts == {<<>>, <<" ">>, <<"a">>}
Files == {NULL, "file"}

(* the instants at which the clock is read: the instant of the mount and   *)
(* a later one, past the reload delay                                      *)
Times == {0, MaxTime}

(* response.json() of the generation request: a body that does not decode, *)
(* the JSON value null, success bodies and failure bodies                   *)
NoBody == [kind |-> "undecodable", error |-> Undefined,
           outputPath |-> Undefined, note |-> Undefined]

SuccessBodies ==
    [kind : {"object"}, error : {Undefined},
     outputPath : {Undefined, "/videos/out.mp4"},
     note : {Undefined, "note"}]

FailureBodies ==
    [kind : {"object"}, error : {Undefined, "boom", "bang"},
     outputPath : {Undefined}, note : {Undefined}]

Bodies ==
    {NoBody, [NoBody EXCEPT !.kind = "null"]}
    \cup SuccessBodies \cup FailureBodies

(* the outcome of the fetch of the generation request: it rejects, or it    *)
(* resolves with a status and a body                                        *)
GenResponses ==
    [type : {"reject"}, ok : {FALSE}, body : {NoBody}]
    \cup
    [type : {"http"}, ok : {TRUE}, body : Bodies \ FailureBodies]
    \cup
    [type : {"http"}, ok : {FALSE}, body : Bodies \ SuccessBodies]
    \cup
    [type : {"http"}, ok : BOOLEAN,
     body : SuccessBodies \cap FailureBodies]

(* propsResponse.json() of videos/props.json *)
SpeechLists == {<<<<"c">>, <<"d">>>>}
PromptTexts == {<<"c", "\n", "\n", "d">>}

PropsResponses ==
    [kind : {"reject", "undecodable", "null"},
     textForSpeech : {<<>>}, promptText : {<<>>}]
    \cup
    [kind : {"object"},
     textForSpeech : {<<>>} \cup {<<l>> : l \in SpeechLists},
     promptText : {<<>>} \cup {<<p>> : p \in PromptTexts}]

----------------------------------------------------------------------------
(* The rendered <video> element *)

(* videoRef.current: the ref of the element rendered when videoPath is truthy *)
videoRef == IF mounted /\ videoPath # <<>> THEN "video" ELSE NULL

(* State of the element after a render with the given videoPath and key:   *)
(* no element for an empty path, a fresh element when none was rendered    *)
(* before or when the key changed, the same element otherwise.             *)
Render(path, key) ==
    IF path = <<>> THEN "absent"
    ELSE IF videoPath = <<>> \/ key # videoKey THEN "ready"
         ELSE media

----------------------------------------------------------------------------
(* window.speechSynthesis *)

(* cancel(): removes all utterances from the queue; the paused flag stays *)
SynthCancel(q) == <<>>

(* speak(utterance): appends the utterance to the queue *)
SynthSpeak(q, u) == Append(q, u)

(* new SpeechSynthesisUtterance(captions.join(". ")), rate 1, pitch 1 *)
Utterance(lines) == [text |-> Join(lines), rate |-> 1, pitch |-> 1]

(* an utterance is being spoken *)
Speaking == synthQueue # <<>> /\ ~synthPaused

(* the position after a handler that calls cancel() when the condition     *)
(* holds: what was spoken of the dropped utterance is lost, and the         *)
(* utterance at the head of the queue, if any, is at its beginning          *)
PosAfterCancel(called) == IF called THEN 0 ELSE synthPos

----------------------------------------------------------------------------
Init ==
    /\ prompt = <<>>
    /\ documentFile = NULL
    /\ videoPath = <<>>
    /\ loading = FALSE
    /\ error = ""
    /\ notification = ""
    /\ captions = <<>>
    /\ now = 0
    /\ videoKey = 0
    /\ speechSynthesisRef \in {NULL, "speechSynthesis"}
    /\ mounted = TRUE
    /\ calls = <<>>
    /\ synthQueue = <<>>
    /\ synthPaused = FALSE
    /\ synthPos = 0
    /\ media = "absent"
    /\ timers = <<>>
    /\ loadCount = 0

(* time passes *)
Tick ==
    /\ \E t \in Times : t > now /\ now' = t
    /\ UNCHANGED <<uiVars, speechSynthesisRef, mounted, calls, synthVars,
                   playVars>>

(* onChange of the prompt input *)
SetPrompt(p) ==
    /\ mounted
    /\ prompt' = p
    /\ UNCHANGED <<documentFile, videoPath, loading, error, notification,
                   captions, videoKey, speechSynthesisRef, mounted, now,
                   calls, synthVars, playVars>>

(* onChange of the file input *)
SetDocumentFile(f) ==
    /\ mounted
    /\ documentFile' = f
    /\ UNCHANGED <<prompt, videoPath, loading, error, notification,
                   captions, videoKey, speechSynthesisRef, mounted, now,
                   calls, synthVars, playVars>>

----------------------------------------------------------------------------
(* handleGenerate *)

(* !prompt.trim() && !documentFile *)
ValidationFails(p, f) == Trim(p) = <<>> /\ f = NULL

(* faulty variant: the branch tests the prompt first *)
BuildRequest_PromptFirst(p, f) ==
    IF Trim(p) # <<>>
    THEN [kind |-> "prompt", url |-> PromptUrl, document |-> NULL,
          userPrompt |-> p]
    ELSE [kind |-> "document", url |-> DocumentUrl, document |-> f,
          userPrompt |-> <<>>]

(* the fetch call chosen by the branch on documentFile *)
BuildRequest(p, f) ==
    IF f # NULL
    THEN [kind |-> "document", url |-> DocumentUrl, document |-> f,
          userPrompt |-> <<>>]
    ELSE [kind |-> "prompt", url |-> PromptUrl, document |-> NULL,
          userPrompt |-> p]

(* faulty variant: the validation branch also removes the video *)
RejectSubmission_ClearsVideo ==
    /\ error' = ValidationMsg
    /\ videoPath' = <<>>
    /\ media' = "absent"
    /\ UNCHANGED <<formVars, loading, notification, captions, videoKey,
                   calls>>

(* the early return of the validation branch *)
RejectSubmission ==
    /\ error' = ValidationMsg
    /\ UNCHANGED <<formVars, videoPath, loading, notification, captions,
                   videoKey, calls, media>>

(* faulty variant: the previous video is kept while the request is outstanding *)
StartSubmission_KeepsVideo ==
    /\ Len(calls) < MaxCalls
    /\ loading' = TRUE
    /\ error' = ""
    /\ notification' = ""
    /\ captions' = <<>>
    /\ calls' = Append(calls, [pc |-> "awaitGen",
                               req |-> BuildRequest(prompt, documentFile),
                               videoPath |-> videoPath])
    /\ UNCHANGED <<formVars, videoKey, videoPath, media>>

(* the resets before the try block and the fetch of the generation request *)
StartSubmission ==
    /\ Len(calls) < MaxCalls
    /\ loading' = TRUE
    /\ error' = ""
    /\ videoPath' = <<>>
    /\ notification' = ""
    /\ captions' = <<>>
    /\ media' = Render(<<>>, videoKey)
    /\ calls' = Append(calls, [pc |-> "awaitGen",
                               req |-> BuildRequest(prompt, documentFile),
                               videoPath |-> videoPath])
    /\ UNCHANGED <<formVars, videoKey>>

handleGenerate ==
    /\ IF ValidationFails(prompt, documentFile)
       THEN RejectSubmission
       ELSE StartSubmission
    /\ UNCHANGED <<speechSynthesisRef, mounted, now, synthVars, timers,
                   loadCount>>

(* faulty variant: the button is never disabled *)
Disabled_Never == FALSE

(* disabled={loading} of the Create Video button *)
Disabled == loading

(* a click on the Create Video button *)
SubmitClick ==
    /\ mounted
    /\ IF Disabled THEN UNCHANGED vars ELSE handleGenerate

----------------------------------------------------------------------------
(* handleGenerate, resumed after the await of the generation request *)

(* the finally block: setLoading(false); the invocation returns *)
FinishGeneration(i) ==
    /\ loading' = FALSE
    /\ calls' = RemoveAt(calls, i)

(* faulty variant: the failure path does not reset loading *)
FailGeneration_KeepsLoading(i, err) ==
    /\ error' = GenericMsg
    /\ calls' = RemoveAt(calls, i)
    /\ UNCHANGED loading

(* the outer catch block, entered with the error err, then the finally block *)
FailGeneration(i, err) ==
    /\ error' = GenericMsg
    /\ FinishGeneration(i)

(* what the await of fetch and of response.json(), and the check of         *)
(* response.ok, throw: the name of the error, or the message of the Error   *)
(* built from data.error; "" when nothing is thrown before line 161         *)
Thrown(r) ==
    IF r.type = "reject" THEN "TypeError: Failed to fetch"
    ELSE IF r.body.kind = "undecodable" THEN "SyntaxError"
    ELSE IF r.ok THEN ""
    ELSE IF r.body.kind = "null" THEN "TypeError: data is null"
    ELSE IF r.body.error # Undefined THEN r.body.error
    ELSE ApiFailedMsg

(* faulty variant: loading is reset as soon as the video is published,      *)
(* while the fetch of props.json is still awaited                           *)
PublishVideo_FireAndForget(i, data) ==
    /\ videoKey' = now
    /\ videoPath' = <<data.outputPath, now>>
    /\ notification' = IF data.note # Undefined THEN data.note
                       ELSE notification
    /\ media' = Render(<<data.outputPath, now>>, now)
    /\ calls' = [calls EXCEPT ![i] = [pc |-> "awaitProps",
                                      req |-> calls[i].req]]
    /\ loading' = FALSE
    /\ UNCHANGED <<error, captions>>

(* lines 161-168: the new key, the cache-busted path, the optional note;    *)
(* the invocation then awaits the fetch of props.json                       *)
PublishVideo(i, data) ==
    /\ videoKey' = now
    /\ videoPath' = <<data.outputPath, now>>
    /\ notification' = IF data.note # Undefined THEN data.note
                       ELSE notification
    /\ media' = Render(<<data.outputPath, now>>, now)
    /\ calls' = [calls EXCEPT ![i] = [pc |-> "awaitProps",
                                      req |-> calls[i].req]]
    /\ UNCHANGED <<loading, error, captions>>

(* the generation request settles with r *)
GenResponse(i, r) ==
    /\ mounted
    /\ i \in 1..Len(calls)
    /\ calls[i].pc = "awaitGen"
    /\ IF Thrown(r) # ""
       THEN /\ FailGeneration(i, Thrown(r))
            /\ UNCHANGED <<videoPath, notification, captions, videoKey,
                           media>>
       ELSE IF r.body.kind = "null"
       THEN \* setVideoKey(Date.now()) runs, then data.outputPath throws
            /\ videoKey' = now
            /\ media' = Render(videoPath, now)
            /\ FailGeneration(i, "TypeError: data is null")
            /\ UNCHANGED <<videoPath, notification, captions>>
       ELSE PublishVideo(i, r.body)
    /\ UNCHANGED <<formVars, speechSynthesisRef, mounted, now, synthVars,
                   timers, loadCount>>

(* faulty variant: promptText is preferred to textForSpeech *)
ExtractCaptions_PromptFirst(propsData, old) ==
    IF propsData.promptText # <<>> /\ propsData.promptText[1] # <<>>
    THEN FilterNonBlank(Split(propsData.promptText[1], "\n"))
    ELSE IF propsData.textForSpeech # <<>>
         THEN propsData.textForSpeech[1]
         ELSE old

(* lines 174-179: the captions taken from the decoded props.json *)
ExtractCaptions(propsData, old) ==
    IF propsData.textForSpeech # <<>>
    THEN propsData.textForSpeech[1]
    ELSE IF propsData.promptText # <<>> /\ propsData.promptText[1] # <<>>
         THEN FilterNonBlank(Split(propsData.promptText[1], "\n"))
         ELSE old

(* faulty variant: the inner catch block surfaces the error *)
CaptionFetchFailed_Surfaced ==
    /\ error' = GenericMsg
    /\ UNCHANGED captions

(* the inner catch block: console.error only *)
CaptionFetchFailed ==
    UNCHANGED <<captions, error>>

(* the fetch of props.json settles with r *)
PropsResponse(i, r) ==
    /\ mounted
    /\ i \in 1..Len(calls)
    /\ calls[i].pc = "awaitProps"
    /\ IF r.kind = "object"
       THEN captions' = ExtractCaptions(r, captions) /\ UNCHANGED error
       ELSE CaptionFetchFailed
    /\ FinishGeneration(i)
    /\ UNCHANGED <<formVars, videoPath, notification, videoKey,
                   speechSynthesisRef, mounted, now, synthVars, playVars>>

(* after the unmount the state setters of a resumed invocation do nothing *)
OrphanGenResponse(i, r) ==
    /\ ~mounted
    /\ i \in 1..Len(calls)
    /\ calls[i].pc = "awaitGen"
    /\ IF Thrown(r) # "" \/ r.body.kind = "null"
       THEN calls' = RemoveAt(calls, i)
       ELSE calls' = [calls EXCEPT ![i] = [pc |-> "awaitProps",
                                           req |-> calls[i].req]]
    /\ UNCHANGED <<uiVars, speechSynthesisRef, mounted, now, synthVars,
                   playVars>>

OrphanPropsResponse(i) ==
    /\ ~mounted
    /\ i \in 1..Len(calls)
    /\ calls[i].pc = "awaitProps"
    /\ calls' = RemoveAt(calls, i)
    /\ UNCHANGED <<uiVars, speechSynthesisRef, mounted, now, synthVars,
                   playVars>>

----------------------------------------------------------------------------
(* The handlers of the <video> element *)

(* faulty variant: speak without the preceding cancel *)
handleVideoPlay_NoCancel(q) ==
    IF Len(captions) > 0 /\ speechSynthesisRef # NULL
    THEN SynthSpeak(q, Utterance(captions))
    ELSE q

(* handleVideoPlay: the utterance queue after the handler *)
handleVideoPlay(q) ==
    IF Len(captions) > 0 /\ speechSynthesisRef # NULL
    THEN SynthSpeak(SynthCancel(q), Utterance(captions))
    ELSE q

(* handleVideoPause: the paused flag after the handler *)
handleVideoPause(p) ==
    IF speechSynthesisRef # NULL THEN TRUE ELSE p

(* faulty variant: the ended event leaves the narration in the queue *)
handleVideoEnded_Keeps(q) == q

(* handleVideoEnded: the utterance queue after the handler *)
handleVideoEnded(q) ==
    IF speechSynthesisRef # NULL THEN SynthCancel(q) ELSE q

(* faulty variant: the key changes but no reload is scheduled *)
handleVideoError_NoTimer ==
    IF videoRef # NULL
    THEN /\ videoKey' = now
         /\ media' = IF now # videoKey THEN "ready" ELSE "error"
         /\ UNCHANGED timers
    ELSE /\ media' = "error"
         /\ UNCHANGED <<videoKey, timers>>

(* handleVideoError: a new key and a timer when an element is rendered;     *)
(* the element that fired the event is replaced when the key changed        *)
handleVideoError ==
    IF videoRef # NULL
    THEN /\ videoKey' = now
         /\ timers' = Append(timers, now + ReloadDelay)
         /\ media' = IF now # videoKey THEN "ready" ELSE "error"
    ELSE /\ media' = "error"
         /\ UNCHANGED <<videoKey, timers>>

(* the play event of the element (onPlay) *)
VideoPlay ==
    /\ mounted
    /\ media \in {"ready", "paused", "ended"}
    /\ media' = "playing"
    /\ synthQueue' = handleVideoPlay(synthQueue)
    /\ synthPos' = PosAfterCancel(Len(captions) > 0
                                  /\ speechSynthesisRef # NULL)
    /\ UNCHANGED <<uiVars, speechSynthesisRef, mounted, now, calls,
                   synthPaused, timers, loadCount>>

(* the pause event of the element (onPause) *)
VideoPause ==
    /\ mounted
    /\ media = "playing"
    /\ media' = "paused"
    /\ synthPaused' = handleVideoPause(synthPaused)
    /\ UNCHANGED <<uiVars, speechSynthesisRef, mounted, now, calls,
                   synthQueue, synthPos, timers, loadCount>>

(* playback reaches the end: the element fires pause, then ended *)
VideoEnded ==
    /\ mounted
    /\ media = "playing"
    /\ media' = "ended"
    /\ synthPaused' = handleVideoPause(synthPaused)
    /\ synthQueue' = handleVideoEnded(synthQueue)
    /\ synthPos' = PosAfterCancel(speechSynthesisRef # NULL)
    /\ UNCHANGED <<uiVars, speechSynthesisRef, mounted, now, calls, timers,
                   loadCount>>

(* the error event of the element (onError) *)
VideoError ==
    /\ mounted
    /\ media \notin {"absent", "error"}
    /\ loadCount + Len(timers) < MaxReloads
    /\ handleVideoError
    /\ UNCHANGED <<formVars, videoPath, loading, error, notification,
                   captions, speechSynthesisRef, mounted, now, calls,
                   synthVars, loadCount>>

(* faulty variant: the callback reloads without testing videoRef.current *)
ReloadTimer_Unchecked ==
    /\ timers # <<>>
    /\ Head(timers) <= now
    /\ timers' = Tail(timers)
    /\ loadCount' = loadCount + 1
    /\ media' = "ready"
    /\ UNCHANGED <<uiVars, speechSynthesisRef, mounted, now, calls,
                   synthVars>>

(* the callback of setTimeout(..., 500) *)
ReloadTimer ==
    /\ timers # <<>>
    /\ Head(timers) <= now
    /\ timers' = Tail(timers)
    /\ IF videoRef # NULL
       THEN /\ loadCount' = loadCount + 1
            /\ media' = "ready"
       ELSE UNCHANGED <<loadCount, media>>
    /\ UNCHANGED <<uiVars, speechSynthesisRef, mounted, now, calls,
                   synthVars>>

(* the engine speaks on: part of the utterance at the head has been spoken *)
UtteranceProgress ==
    /\ Speaking
    /\ synthPos = 0
    /\ synthPos' = 1
    /\ UNCHANGED <<uiVars, speechSynthesisRef, mounted, now, calls,
                   synthQueue, synthPaused, playVars>>

(* the engine finishes speaking the utterance at the head of its queue *)
UtteranceEnd ==
    /\ Speaking
    /\ synthQueue' = Tail(synthQueue)
    /\ synthPos' = 0
    /\ UNCHANGED <<uiVars, speechSynthesisRef, mounted, now, calls,
                   synthPaused, playVars>>

----------------------------------------------------------------------------
(* faulty variant: the Clear button abandons the suspended invocation *)
handleClear_AbortsRequest ==
    /\ mounted
    /\ prompt' = <<>>
    /\ documentFile' = NULL
    /\ videoPath' = <<>>
    /\ loading' = FALSE
    /\ error' = ""
    /\ notification' = ""
    /\ captions' = <<>>
    /\ calls' = <<>>
    /\ media' = Render(<<>>, videoKey)
    /\ synthQueue' = IF speechSynthesisRef # NULL THEN SynthCancel(synthQueue)
                     ELSE synthQueue
    /\ synthPos' = PosAfterCancel(speechSynthesisRef # NULL)
    /\ UNCHANGED <<videoKey, speechSynthesisRef, mounted, now,
                   synthPaused, timers, loadCount>>

(* faulty variant: the Clear button also resets loading *)
handleClear_ResetsLoading ==
    /\ mounted
    /\ prompt' = <<>>
    /\ documentFile' = NULL
    /\ videoPath' = <<>>
    /\ loading' = FALSE
    /\ error' = ""
    /\ notification' = ""
    /\ captions' = <<>>
    /\ media' = Render(<<>>, videoKey)
    /\ synthQueue' = IF speechSynthesisRef # NULL THEN SynthCancel(synthQueue)
                     ELSE synthQueue
    /\ synthPos' = PosAfterCancel(speechSynthesisRef # NULL)
    /\ UNCHANGED <<videoKey, speechSynthesisRef, mounted, now,
                   calls, synthPaused, timers, loadCount>>

(* faulty variant: the Clear button leaves the narration running *)
handleClear_NoCancel ==
    /\ mounted
    /\ prompt' = <<>>
    /\ documentFile' = NULL
    /\ videoPath' = <<>>
    /\ error' = ""
    /\ notification' = ""
    /\ captions' = <<>>
    /\ media' = Render(<<>>, videoKey)
    /\ UNCHANGED <<loading, videoKey, speechSynthesisRef, mounted, now,
                   calls, synthVars, timers, loadCount>>

(* handleClear: a click on the Clear button *)
handleClear ==
    /\ mounted
    /\ prompt' = <<>>
    /\ documentFile' = NULL
    /\ videoPath' = <<>>
    /\ error' = ""
    /\ notification' = ""
    /\ captions' = <<>>
    /\ media' = Render(<<>>, videoKey)
    /\ synthQueue' = IF speechSynthesisRef # NULL THEN SynthCancel(synthQueue)
                     ELSE synthQueue
    /\ synthPos' = PosAfterCancel(speechSynthesisRef # NULL)
    /\ UNCHANGED <<loading, videoKey, speechSynthesisRef, mounted, now,
                   calls, synthPaused, timers, loadCount>>

(* the cleanup of the mount effect: the component is unmounted *)
Unmount ==
    /\ mounted
    /\ mounted' = FALSE
    /\ media' = "absent"
    /\ synthQueue' = IF speechSynthesisRef # NULL THEN SynthCancel(synthQueue)
                     ELSE synthQueue
    /\ synthPos' = PosAfterCancel(speechSynthesisRef # NULL)
    /\ UNCHANGED <<uiVars, speechSynthesisRef, now, calls, synthPaused,
                   timers, loadCount>>

----------------------------------------------------------------------------
(* an HTTP call settles *)
Responses ==
    \/ \E i \in 1..MaxCalls, r \in GenResponses : GenResponse(i, r)
    \/ \E i \in 1..MaxCalls, r \in PropsResponses : PropsResponse(i, r)
    \/ \E i \in 1..MaxCalls, r \in GenResponses : OrphanGenResponse(i, r)
    \/ \E i \in 1..MaxCalls : OrphanPropsResponse(i)

Next ==
    \/ Tick
    \/ \E p \in Prompts : SetPrompt(p)
    \/ \E f \in Files : SetDocumentFile(f)
    \/ SubmitClick
    \/ \E i \in 1..MaxCalls, r \in GenResponses : GenResponse(i, r)
    \/ \E i \in 1..MaxCalls, r \in PropsResponses : PropsResponse(i, r)
    \/ \E i \in 1..MaxCalls, r \in GenResponses : OrphanGenResponse(i, r)
    \/ \E i \in 1..MaxCalls : OrphanPropsResponse(i)
    \/ VideoPlay
    \/ VideoPause
    \/ VideoEnded
    \/ VideoError
    \/ ReloadTimer
    \/ UtteranceProgress
    \/ UtteranceEnd
    \/ handleClear
    \/ Unmount

Spec == Init /\ [][Next]_vars

(* every HTTP call eventually resolves or rejects *)
FairSpec == Spec /\ WF_vars(Responses)

----------------------------------------------------------------------------
(* The caption extraction of lines 171-182 on its own: an invocation is     *)
(* suspended at the fetch of props.json, right after it published its       *)
(* video, and the fetch resolves with a decoded object.                     *)

(* values of textForSpeech: lists of lines, the empty list included *)
CaptionLists ==
    {<<>>,
     <<<<"a">>, <<"b">>>>,
     <<<<"b">>, <<"a">>>>,
     <<<<"c">>, <<"d">>>>}

(* values of promptText: strings, the empty string included *)
CaptionTexts ==
    {<<>>,
     <<"\n">>,
     <<"c", "\n", "\n", "d">>,
     <<" ", "\n", "d">>,
     <<"d", "\n", "c", "\n">>}

CaptionInputs ==
    [kind : {"object"},
     textForSpeech : {<<>>} \cup {<<l>> : l \in CaptionLists},
     promptText : {<<>>} \cup {<<p>> : p \in CaptionTexts}]

(* the state in which handleGenerate awaits the fetch of props.json *)
CaptionInit ==
    /\ prompt \in Prompts
    /\ documentFile \in Files
    /\ ~ValidationFails(prompt, documentFile)
    /\ \E path \in {Undefined, "/videos/out.mp4"} : videoPath = <<path, 0>>
    /\ loading = TRUE
    /\ error = ""
    /\ notification \in {"", "note"}
    /\ captions = <<>>
    /\ now = 0
    /\ videoKey = 0
    /\ speechSynthesisRef \in {NULL, "speechSynthesis"}
    /\ mounted = TRUE
    /\ calls = <<[pc |-> "awaitProps",
                  req |-> BuildRequest(prompt, documentFile)]>>
    /\ synthQueue = <<>>
    /\ synthPaused = FALSE
    /\ synthPos = 0
    /\ media = "ready"
    /\ timers = <<>>
    /\ loadCount = 0

CaptionNext == \E r \in CaptionInputs : PropsResponse(1, r)

CaptionSpec == CaptionInit /\ [][CaptionNext]_vars

----------------------------------------------------------------------------
(* Vocabulary of the properties *)

(* the number of invocations suspended at the given await *)
CountPc(cs, pc) == Cardinality({i \in 1..Len(cs) : cs[i].pc = pc})

(* the number of generation requests that are outstanding *)
Outstanding == CountPc(calls, "awaitGen")

(* a step Submitting -> Failed: an outstanding generation request is        *)
(* consumed and no caption fetch is started                                 *)
FailedTransition ==
    /\ mounted
    /\ CountPc(calls', "awaitGen") < CountPc(calls, "awaitGen")
    /\ CountPc(calls', "awaitProps") = CountPc(calls, "awaitProps")

(* a step Submitting -> Succeeded: the invocation goes on to the caption    *)
(* fetch                                                                    *)
SucceededTransition ==
    /\ mounted
    /\ CountPc(calls', "awaitGen") < CountPc(calls, "awaitGen")
    /\ CountPc(calls', "awaitProps") > CountPc(calls, "awaitProps")

(* a click on the enabled button with a form that fails / passes validation *)
InvalidSubmit ==
    /\ mounted /\ ~Disabled
    /\ ValidationFails(prompt, documentFile)
    /\ SubmitClick

ValidSubmit ==
    /\ mounted /\ ~Disabled
    /\ ~ValidationFails(prompt, documentFile)
    /\ SubmitClick

(* responses by which the service explicitly reports a failure *)
ServiceFailures ==
    {r \in GenResponses : /\ r.type = "http" /\ ~r.ok
                          /\ r.body.kind = "object"
                          /\ r.body.error # Undefined}

ErrorTexts == {"", ValidationMsg, GenericMsg, ApiFailedMsg, "boom", "bang"}

(* a step that discards a paused utterance: the utterance at the head of    *)
(* the queue of a paused engine is removed, or replaced by one that starts  *)
(* again at its beginning                                                   *)
PausedUtteranceDiscarded ==
    /\ synthPaused /\ synthQueue # <<>>
    /\ \/ synthQueue' = <<>>
       \/ Head(synthQueue') # Head(synthQueue)
       \/ synthPos' # synthPos

(* a step that applies a result of a submission to the state: a video       *)
(* reference, a note or captions are published, or the error of a failed    *)
(* generation is shown                                                      *)
ResultApplied ==
    \/ videoPath' # videoPath /\ videoPath' # <<>>
    \/ notification' # notification /\ notification' # ""
    \/ captions' # captions /\ captions' # <<>>
    \/ error' # error /\ error' = GenericMsg

----------------------------------------------------------------------------
(* C1: single-flight.  At most one generation request is outstanding in    *)
(* every reachable state; from a state in which loading is true no step     *)
(* sends a generation request, and a click on the submit button changes     *)
(* nothing.                                                                 *)
C1_SingleFlight ==
    /\ [](Outstanding <= 1)
    /\ [][loading =>
            /\ CountPc(calls', "awaitGen") <= CountPc(calls, "awaitGen")
            /\ (SubmitClick => UNCHANGED vars)]_vars

(* a request is outstanding while the form would pass validation *)
C1_Witness ==
    /\ mounted /\ loading /\ Outstanding = 1
    /\ ~ValidationFails(prompt, documentFile)

(* C2 as stated: after a failed submission the video reference is the one  *)
(* that was displayed when the submission started.                          *)
C2_PreviousVideoRemains ==
    [][\A i \in 1..Len(calls) :
          (FailedTransition /\ calls[i].pc = "awaitGen"
                            /\ calls' = RemoveAt(calls, i))
          => videoPath' = calls[i].videoPath]_vars

(* C2 amended: the step Submitting -> Failed does not change the video      *)
(* reference, which is the empty reference set when the submission          *)
(* started; the video displayed before the submission is not displayed      *)
(* after the failure.                                                       *)
C2_FailureLeavesClearedVideo ==
    [][FailedTransition => videoPath' = videoPath /\ videoPath' = <<>>]_vars

(* a failed submission, made after a video element had been rendered *)
C2_Witness ==
    /\ mounted /\ ~loading /\ calls = <<>>
    /\ error = GenericMsg
    /\ videoPath = <<>>
    /\ loadCount > 0

(* C3: two explicit service failures that carry different messages are     *)
(* shown as different error messages: no error text is the result of        *)
(* handling both of two service failures whose messages differ.             *)
C3_ErrorDerivedFromServerMessage ==
    \A i \in 1..Len(calls) : \A r1, r2 \in ServiceFailures :
        r1.body.error # r2.body.error =>
            \A e \in ErrorTexts :
                ~ (/\ ENABLED (GenResponse(i, r1) /\ error' = e)
                   /\ ENABLED (GenResponse(i, r2) /\ error' = e))

(* C4: a step Submitting -> Failed ends with loading false, the submit      *)
(* button enabled, a non-empty error and one invocation fewer (nothing is   *)
(* re-sent); a generation request is only ever sent by a click; and, when   *)
(* every HTTP call settles, a submission always returns to Idle.            *)
C4_ErrorsEndSubmitting ==
    /\ [][FailedTransition =>
            /\ ~loading' /\ ~Disabled'
            /\ error' # ""
            /\ Len(calls') = Len(calls) - 1]_vars
    /\ [][CountPc(calls', "awaitGen") > CountPc(calls, "awaitGen")
            => SubmitClick]_vars
    /\ ((mounted /\ loading) ~> (~mounted \/ ~loading))

(* the error of a failed submission is shown and the button is enabled *)
C4_Witness ==
    /\ mounted /\ ~loading /\ ~Disabled
    /\ calls = <<>>
    /\ error = GenericMsg

(* C5: every successful generation gives videoKey a value different from    *)
(* its previous value, and videoKey never decreases.                        *)
C5_TokenChangesOnSuccess ==
    [][/\ SucceededTransition => videoKey' # videoKey
       /\ videoKey' >= videoKey]_vars

(* C6: captions become non-empty only by the handling of a decoded          *)
(* props.json; a caption fetch that rejects or does not decode leaves the   *)
(* captions empty, sets no error and leaves the video reference as          *)
(* published.                                                               *)
C6_CaptionsOnlyAfterFetch ==
    [][/\ (captions' # captions /\ captions' # <<>>)
            => \E i \in 1..MaxCalls, r \in PropsResponses :
                   r.kind = "object" /\ PropsResponse(i, r)
       /\ \A i \in 1..MaxCalls, r \in PropsResponses :
            (r.kind # "object" /\ PropsResponse(i, r))
            => /\ captions' = <<>>
               /\ error' = ""
               /\ videoPath' = videoPath]_vars

(* a finished generation whose video is displayed without captions or error *)
C6_Witness ==
    /\ mounted /\ ~loading /\ calls = <<>>
    /\ videoPath # <<>>
    /\ captions = <<>>
    /\ error = ""

(* C7: a click with a blank prompt and no file sets the validation error,   *)
(* sends no request and changes nothing else.                               *)
C7_ValidationFrame ==
    [][InvalidSubmit =>
         /\ error' = ValidationMsg
         /\ UNCHANGED <<prompt, documentFile, videoPath, loading,
                        notification, captions, videoKey, calls, media,
                        synthQueue, synthPaused, timers>>]_vars

(* the validation error is shown next to a video that is still displayed *)
C7_Witness ==
    /\ mounted /\ ~loading /\ calls = <<>>
    /\ error = ValidationMsg
    /\ videoPath # <<>>

(* C8: a click with a form that passes validation sends exactly one         *)
(* request, the document request when a file is attached and the prompt     *)
(* request otherwise; no other step sends a generation request.             *)
C8_OneRequestOfRightVariant ==
    [][/\ ValidSubmit =>
            /\ Len(calls') = Len(calls) + 1
            /\ SubSeq(calls', 1, Len(calls)) = calls
            /\ calls'[Len(calls')].pc = "awaitGen"
            /\ calls'[Len(calls')].req.kind =
                   IF documentFile # NULL THEN "document" ELSE "prompt"
            /\ calls'[Len(calls')].req.url =
                   IF documentFile # NULL THEN DocumentUrl ELSE PromptUrl
       /\ CountPc(calls', "awaitGen") > CountPc(calls, "awaitGen")
            => ValidSubmit]_vars

(* a document request is outstanding while prompt text is present too *)
C8_Witness ==
    /\ mounted
    /\ \E i \in 1..Len(calls) :
          calls[i].pc = "awaitGen" /\ calls[i].req.kind = "document"
    /\ documentFile # NULL
    /\ Trim(prompt) # <<>>

(* C9: the narration engine never holds more than one utterance, and an     *)
(* utterance enters the queue only as its sole element, built from the      *)
(* current captions.                                                        *)
C9_OneUtterance ==
    /\ [](Len(synthQueue) <= 1)
    /\ [][(synthQueue' # synthQueue /\ synthQueue' # <<>>)
            => synthQueue' = <<Utterance(captions)>>]_vars

(* the video plays with its narration queued after an error recovery *)
C9_Witness ==
    /\ mounted
    /\ media = "playing"
    /\ Len(synthQueue) = 1
    /\ loadCount > 0

CaptionsByPrecedence(r) ==
    IF r.textForSpeech # <<>> THEN r.textForSpeech[1]
    ELSE IF r.promptText # <<>>
         THEN FilterNonBlank(Split(r.promptText[1], "\n"))
         ELSE <<>>

(* C11: caption precedence.  After a decoded props.json is handled the      *)
(* captions are the textForSpeech list when the field is present, whatever  *)
(* promptText holds; otherwise the non-blank lines of promptText in order   *)
(* when that field is present; otherwise empty.                             *)
C11_CaptionPrecedence ==
    [][\A r \in CaptionInputs :
          PropsResponse(1, r) => captions' = CaptionsByPrecedence(r)]_vars

(* captions that only textForSpeech can give, taken although promptText     *)
(* was offered with it                                                      *)
C11_Witness ==
    /\ mounted /\ ~loading /\ calls = <<>>
    /\ captions = <<<<"a">>, <<"b">>>>

(* C12 as stated: a click on Clear puts every field of the state back to    *)
(* its initial value and leaves no narration in the engine; the unmount     *)
(* leaves no narration in the engine.                                       *)
C12_ClearResetsAllFields ==
    /\ [][handleClear =>
            /\ prompt' = <<>> /\ documentFile' = NULL /\ videoPath' = <<>>
            /\ loading' = FALSE
            /\ error' = "" /\ notification' = "" /\ captions' = <<>>
            /\ synthQueue' = <<>>]_vars
    /\ [][Unmount => synthQueue' = <<>>]_vars

(* C12 amended: a click on Clear puts prompt, documentFile, videoPath,      *)
(* error, notification and captions back to their initial values, removes   *)
(* the video element and leaves no narration in the engine, while loading,  *)
(* videoKey, the suspended invocations and the reload timers stay as they   *)
(* are; the unmount leaves no narration in the engine and sets no field.    *)
C12_ClearResetsContent ==
    /\ [][handleClear =>
            /\ prompt' = <<>> /\ documentFile' = NULL /\ videoPath' = <<>>
            /\ error' = "" /\ notification' = "" /\ captions' = <<>>
            /\ media' = "absent"
            /\ synthQueue' = <<>>
            /\ UNCHANGED <<loading, videoKey, calls, timers>>]_vars
    /\ [][Unmount => synthQueue' = <<>> /\ UNCHANGED uiVars]_vars

(* the form is cleared and a paused narration discarded while a request is  *)
(* still outstanding                                                        *)
C12_Witness ==
    /\ mounted /\ loading /\ Outstanding = 1
    /\ prompt = <<>> /\ documentFile = NULL /\ videoPath = <<>>
    /\ synthQueue = <<>> /\ synthPaused

(* C13: the step that sends a generation request clears the error, the     *)
(* notification and the captions, and while the request is outstanding the  *)
(* narration engine holds no utterance (the video it could belong to was    *)
(* displayed before the submission).                                        *)
C13_SubmitCancelsNarration ==
    /\ [][ValidSubmit =>
            error' = "" /\ notification' = "" /\ captions' = <<>>]_vars
    /\ [](mounted /\ Outstanding > 0 => synthQueue = <<>>)

(* C14 as stated: the step Submitting -> Succeeded ends with loading false  *)
(* and the submit button enabled, the caption fetch still outstanding.      *)
C14_IdleBeforeCaptions ==
    [][SucceededTransition => ~loading' /\ ~Disabled']_vars

(* C14 amended: the step Submitting -> Succeeded leaves loading true; as    *)
(* long as the caption fetch of a mounted component is outstanding, loading *)
(* is true and the submit button disabled; the step that handles the        *)
(* settled caption fetch, whatever its outcome, ends with loading false.    *)
C14_LoadingUntilCaptionsSettle ==
    /\ [][SucceededTransition => loading' /\ Disabled']_vars
    /\ [](mounted /\ CountPc(calls, "awaitProps") > 0
            => loading /\ Disabled)
    /\ [][(mounted /\ CountPc(calls', "awaitProps")
                        < CountPc(calls, "awaitProps"))
            => ~loading' /\ ~Disabled']_vars

(* the published video is already playing while the caption fetch is        *)
(* outstanding and the button is disabled                                   *)
C14_Witness ==
    /\ mounted /\ loading /\ Disabled
    /\ CountPc(calls, "awaitProps") = 1
    /\ media = "playing"

(* C15: narration in lock-step with playback.  A play event with captions  *)
(* and an engine leaves an utterance being spoken, also after a pause;      *)
(* captions that arrive while the video is playing leave an utterance       *)
(* being spoken; and no utterance is being spoken while no video is         *)
(* playing.                                                                 *)
C15_NarrationLockStep ==
    /\ [][(VideoPlay /\ captions # <<>> /\ speechSynthesisRef # NULL)
            => Speaking']_vars
    /\ [][(/\ mounted /\ media = "playing" /\ media' = "playing"
           /\ speechSynthesisRef # NULL
           /\ captions = <<>> /\ captions' # <<>>)
            => Speaking']_vars
    /\ [](mounted /\ media # "playing" => ~Speaking)

(* C16 as stated: a pause event pauses the engine and keeps the utterance   *)
(* and its position; an ended event empties the queue; a paused utterance   *)
(* is only discarded by an ended event, by Clear or by the unmount.         *)
C16_PausedUtteranceKept ==
    /\ [][VideoPause =>
            /\ synthQueue' = synthQueue /\ synthPos' = synthPos
            /\ (speechSynthesisRef # NULL => synthPaused')]_vars
    /\ [][VideoEnded => synthQueue' = <<>>]_vars
    /\ [][PausedUtteranceDiscarded =>
            VideoEnded \/ handleClear \/ Unmount]_vars

(* C16 amended: a pause event pauses the engine and keeps the utterance and *)
(* its position; an ended event empties the queue; a paused utterance is    *)
(* only discarded by a play event with captions (which cancels it and       *)
(* queues a new utterance at its beginning, the engine still paused), by an *)
(* ended event, by Clear or by the unmount; no step ends the pause of an    *)
(* engine.                                                                  *)
C16_PausedUtteranceKeptUntilPlay ==
    /\ [][VideoPause =>
            /\ synthQueue' = synthQueue /\ synthPos' = synthPos
            /\ (speechSynthesisRef # NULL => synthPaused')]_vars
    /\ [][VideoEnded => synthQueue' = <<>>]_vars
    /\ [][PausedUtteranceDiscarded =>
            \/ VideoPlay /\ captions # <<>>
            \/ VideoEnded \/ handleClear \/ Unmount]_vars
    /\ [][synthPaused => synthPaused']_vars

(* the video and a partly spoken utterance are paused *)
C16_Witness ==
    /\ mounted /\ media = "paused"
    /\ synthPaused /\ synthQueue # <<>> /\ synthPos = 1

(* C17: no stale response.  At most one invocation of handleGenerate is    *)
(* suspended, at its generation request or at its caption fetch; a          *)
(* submission starts only when none is; and a result is applied only by     *)
(* the step that resumes the one suspended invocation, which is therefore   *)
(* the most recent submission.                                              *)
C17_NoStaleResponse ==
    /\ [](Len(calls) <= 1)
    /\ [][Len(calls') > Len(calls) => calls = <<>> /\ ~loading]_vars
    /\ [][ResultApplied =>
            /\ Len(calls) = 1 /\ loading
            /\ \/ calls' = <<>>
               \/ /\ calls[1].pc = "awaitGen"
                  /\ calls' = <<[pc |-> "awaitProps",
                                 req |-> calls[1].req]>>]_vars

(* the video of a second submission is published while the narration of    *)
(* the first one's captions is still in the engine                          *)
C17_Witness ==
    /\ mounted /\ loading
    /\ Len(calls) = 1 /\ calls[1].pc = "awaitProps"
    /\ videoPath # <<>> /\ captions = <<>>
    /\ synthQueue # <<>>

(* C18: a click on Clear leaves the suspended invocation and loading as     *)
(* they are; whenever an invocation of a mounted component is suspended,    *)
(* loading is true and the button disabled; and, cleared form or not, the   *)
(* response of an outstanding generation request can still publish a video  *)
(* and the result of an outstanding caption fetch can still set captions.   *)
C18_ClearKeepsRequest ==
    /\ [][handleClear => UNCHANGED <<calls, loading>>]_vars
    /\ [](mounted /\ calls # <<>> => loading /\ Disabled)
    /\ [](\A i \in 1..Len(calls) :
            (mounted /\ calls[i].pc = "awaitGen") =>
                ENABLED (/\ \E r \in GenResponses : GenResponse(i, r)
                         /\ videoPath' # <<>>))
    /\ [](\A i \in 1..Len(calls) :
            (mounted /\ calls[i].pc = "awaitProps") =>
                ENABLED (/\ \E r \in PropsResponses : PropsResponse(i, r)
                         /\ captions' # <<>>))

(* captions without a video: Clear removed the published video while the   *)
(* caption fetch was outstanding, and the captions arrived afterwards       *)
C18_Witness ==
    /\ mounted /\ ~loading /\ calls = <<>>
    /\ videoPath = <<>> /\ captions # <<>>

(* C19: the video reference becomes non-empty only by the handling of a     *)
(* generation response with a success status and a decoded body that        *)
(* holds an outputPath.                                                     *)
C19_PublishOnlyWithOutputPath ==
    [][(videoPath' # videoPath /\ videoPath' # <<>>)
         => \E i \in 1..MaxCalls, r \in GenResponses :
               /\ r.type = "http" /\ r.ok
               /\ r.body.kind = "object"
               /\ r.body.outputPath # Undefined
               /\ GenResponse(i, r)]_vars

(* C20: a reload timer is started only while an element is rendered; a     *)
(* reload is issued only by a due timer and only on a rendered element,     *)
(* whichever generation it belongs to, and leaves it ready; a due timer     *)
(* that finds no element reloads nothing; and a timer leaves the list only  *)
(* by firing: Clear, a new submission and the unmount cancel none.          *)
C20_ReloadOnlyOnRenderedElement ==
    /\ [][Len(timers') > Len(timers) => videoRef # NULL]_vars
    /\ [][loadCount' # loadCount =>
            /\ videoRef # NULL /\ media # "absent"
            /\ media' = "ready"
            /\ timers # <<>> /\ Head(timers) <= now]_vars
    /\ [][ReloadTimer =>
            IF videoRef # NULL
            THEN loadCount' = loadCount + 1 /\ media' = "ready"
            ELSE UNCHANGED <<loadCount, media>>]_vars
    /\ [][timers' # timers /\ Len(timers') <= Len(timers) =>
            ReloadTimer /\ timers' = Tail(timers)]_vars

(* after a first reload, a timer started before the displayed video was     *)
(* published is due while that newer video's element is rendered            *)
C20_Witness ==
    /\ loadCount > 0
    /\ timers # <<>> /\ Head(timers) <= now
    /\ videoRef # NULL
    /\ videoPath[2] > Head(timers) - ReloadDelay

====
